---- MODULE Spec2Model ----
(***************************************************************************)
(* Model of the parking-lot allocation engine: ParkingLot in               *)
(* src/src/ParkingManager.py with the vehicle classes of                   *)
(* src/src/Vehicle.py.  Sequences are 1-based here and 0-based in the      *)
(* source: source index i is element i + 1 of the modelled list.           *)
(***************************************************************************)
EXTENDS Integers, Sequences, FiniteSets

VARIABLES
    level,              \* ParkingLot.level
    regular_capacity,   \* ParkingLot.regular_capacity
    ev_capacity,        \* ParkingLot.ev_capacity
    regular_slots,      \* ParkingLot.regular_slots
    ev_slots,           \* ParkingLot.ev_slots
    observers,          \* ParkingLot.observers
    is_initialized,     \* ParkingLot.is_initialized
    last,               \* the latest call: operation, arguments, outcome, events
    callers,            \* each caller's position in park_vehicle and its locals
    lock                \* the per-lot mutex of a multi-caller deployment

vars == <<level, regular_capacity, ev_capacity, regular_slots, ev_slots,
          observers, is_initialized, last, callers, lock>>

lot == <<level, regular_capacity, ev_capacity, regular_slots, ev_slots,
         observers, is_initialized>>

\* the callers in flight and the mutex: untouched by a call that runs alone
threads == <<callers, lock>>

-----------------------------------------------------------------------------
(* Bounds of the explored inputs *)

MaxCapacity == 2

\* capacities a caller may pass: Python ints, negative ones included
Capacities == (0 - 1) .. MaxCapacity
Levels == {1}
SlotNumbers == (0 - 1) .. (MaxCapacity + 1)
ObserverIds == {"gui"}
CallerIds == {1, 2}

\* Strings that are compared letter by letter (colors) are sequences of
\* one-character strings.
\* the vehicles callers ask to park; is_electric is chosen freely on top
SampleVehicles ==
    {[registration_number |-> "ABC123", make |-> "Toyota", model |-> "Corolla",
      color |-> <<"R", "e", "d">>, is_motorcycle |-> FALSE],
     [registration_number |-> "XYZ999", make |-> "Honda", model |-> "CBR",
      color |-> <<"W", "h", "i", "t", "e">>, is_motorcycle |-> TRUE]}

-----------------------------------------------------------------------------
(* Vehicle.py *)

EMPTY_SLOT == [cls |-> "NoneType"]

ElectricClasses == {"ElectricCar", "ElectricMotorcycle"}

IsElectricVehicle(vehicle) == vehicle.cls \in ElectricClasses

NewVehicle(cls, registration_number, make, model, color) ==
    [cls |-> cls, regnum |-> registration_number, make |-> make,
     model |-> model, color |-> color]

NewElectricVehicle(cls, registration_number, make, model, color) ==
    [cls |-> cls, regnum |-> registration_number, make |-> make,
     model |-> model, color |-> color, charge |-> 0]

\* a factory that tests is_motorcycle first and builds a plain Motorcycle
CreateVehicleMotorcycleFirst(registration_number, make, model, color, is_electric, is_motorcycle) ==
    IF is_motorcycle
    THEN NewVehicle("Motorcycle", registration_number, make, model, color)
    ELSE IF is_electric
         THEN NewElectricVehicle("ElectricCar", registration_number, make, model, color)
         ELSE NewVehicle("Car", registration_number, make, model, color)

create_vehicle(registration_number, make, model, color, is_electric, is_motorcycle) ==
    IF is_electric
    THEN IF is_motorcycle
         THEN NewElectricVehicle("ElectricMotorcycle", registration_number, make, model, color)
         ELSE NewElectricVehicle("ElectricCar", registration_number, make, model, color)
    ELSE IF is_motorcycle
         THEN NewVehicle("Motorcycle", registration_number, make, model, color)
         ELSE NewVehicle("Car", registration_number, make, model, color)

get_type(vehicle) ==
    IF vehicle.cls \in {"Car", "ElectricCar"} THEN "Car" ELSE "Motorcycle"

Min(a, b) == IF a <= b THEN a ELSE b

Max(a, b) == IF a >= b THEN a ELSE b

\* a clamp that forgets the lower end
ClampUpperOnly(value) == Min(100, value)

\* what the charge setter stores
ClampCharge(value) == Max(0, Min(100, value))

-----------------------------------------------------------------------------
(* Strategies *)

OccupiedCount(slots) == Cardinality({i \in 1..Len(slots) : slots[i] # EMPTY_SLOT})

StandardCanPark(vehicle, occupied_count, capacity) ==
    ~IsElectricVehicle(vehicle) /\ occupied_count < capacity

EVCanPark(vehicle, occupied_count, capacity) ==
    IsElectricVehicle(vehicle) /\ occupied_count < capacity

\* a scan that keeps the last empty slot it sees instead of returning the first
LastEmptySlot(slots) ==
    LET empty == {i \in 1..Len(slots) : slots[i] = EMPTY_SLOT}
    IN  IF empty = {} THEN 0 - 1
        ELSE (CHOOSE i \in empty : \A j \in empty : i >= j) - 1

\* 0-based index of the first empty slot, -1 when there is none
StandardFindEmptySlot(slots) ==
    LET empty == {i \in 1..Len(slots) : slots[i] = EMPTY_SLOT}
    IN  IF empty = {} THEN 0 - 1
        ELSE (CHOOSE i \in empty : \A j \in empty : i <= j) - 1

EVFindEmptySlot(slots) ==
    LET empty == {i \in 1..Len(slots) : slots[i] = EMPTY_SLOT}
    IN  IF empty = {} THEN 0 - 1
        ELSE (CHOOSE i \in empty : \A j \in empty : i <= j) - 1

-----------------------------------------------------------------------------
(* Events *)

LOT_CREATED == "lot_created"
VEHICLE_PARKED == "vehicle_parked"
VEHICLE_REMOVED == "vehicle_removed"
PARKING_FAILED == "parking_failed"
REMOVAL_FAILED == "removal_failed"

\* A formatted message: the fixed text of the f-string and the values put in it
Message(text, strs, nums) == [text |-> text, strs |-> strs, nums |-> nums]

Event(event_type, message) == [type |-> event_type, message |-> message]

CreatedMessage(rc, ec, lv) == Message("Created parking lot", <<>>, <<rc, ec, lv>>)
NotCreatedMessage == Message("Please create parking lot first", <<>>, <<>>)
\* a message that names the list index instead of the slot number
AllocatedMessageWithIndex(slot_type, slot_number, vehicle) ==
    Message("Allocated slot number", <<slot_type, get_type(vehicle), vehicle.regnum>>,
            <<slot_number - 1>>)

AllocatedMessage(slot_type, slot_number, vehicle) ==
    Message("Allocated slot number", <<slot_type, get_type(vehicle), vehicle.regnum>>,
            <<slot_number>>)
FullMessage(slot_type) == Message("Sorry, parking lot is full", <<slot_type>>, <<>>)
FreeMessage(slot_type, slot_number, vehicle) ==
    Message("Slot is now free", <<slot_type, vehicle.regnum>>, <<slot_number>>)
UnableMessage(slot_type, slot_number) ==
    Message("Unable to remove vehicle from slot", <<slot_type>>, <<slot_number>>)
ErrorMessage == Message("Error", <<>>, <<>>)

\* One notify_observers call.  thrower is the position in the observer list
\* of the observer whose update raises during this call, 0 when none does:
\* the loop stops there and the exception leaves notify_observers.
notify_observers(obs, event, thrower) ==
    [delivered |-> [i \in 1..(IF thrower = 0 THEN Len(obs) ELSE thrower)
                        |-> [observer |-> obs[i], event |-> event]],
     raised |-> thrower # 0]

-----------------------------------------------------------------------------
(* ParkingLot *)

\* a slot array one slot shorter than the capacity it is built for
EmptySlotsOneShort(capacity) == [i \in 1..(capacity - 1) |-> EMPTY_SLOT]

EmptySlots(capacity) == [i \in 1..capacity |-> EMPTY_SLOT]

\* an event slot that holds no event
NoEvent == Event("", Message("", <<>>, <<>>))

\* a caller that is not inside a call
IdleCaller ==
    [pc |-> "idle", op |-> "", args |-> <<>>, vehicle |-> EMPTY_SLOT,
     occupied_count |-> 0, index |-> 0, slot_index |-> 0 - 1, slots |-> "",
     replaced |-> <<>>, event |-> NoEvent, value |-> 0, delivered |-> <<>>,
     result |-> 0, overwrote |-> FALSE]

\* the code takes no lock
NoLock == [enabled |-> FALSE, holder |-> 0]

\* the mutex of a multi-caller deployment, free
FreeLock == [enabled |-> TRUE, holder |-> 0]

\* ParkingLot() as constructed
InitLot ==
    /\ level = 0
    /\ regular_capacity = 0
    /\ ev_capacity = 0
    /\ regular_slots = <<>>
    /\ ev_slots = <<>>
    /\ observers = <<>>
    /\ is_initialized = FALSE
    /\ last = [op |-> "__init__", args |-> <<>>, raised |-> FALSE,
               result |-> "None", emitted |-> <<>>, delivered |-> <<>>]
    /\ callers = [c \in CallerIds |-> IdleCaller]

Init == InitLot /\ lock = NoLock

\* an attach_observer without the membership test
AttachAlways(observer) ==
    /\ observers' = Append(observers, observer)
    /\ last' = [op |-> "attach_observer", args |-> [observer |-> observer],
                raised |-> FALSE, result |-> "None",
                emitted |-> <<>>, delivered |-> <<>>]
    /\ UNCHANGED <<level, regular_capacity, ev_capacity, regular_slots,
                   ev_slots, is_initialized>>
    /\ UNCHANGED threads

attach_observer(observer) ==
    /\ observers' = IF \E i \in 1..Len(observers) : observers[i] = observer
                    THEN observers
                    ELSE Append(observers, observer)
    /\ last' = [op |-> "attach_observer", args |-> [observer |-> observer],
                raised |-> FALSE, result |-> "None",
                emitted |-> <<>>, delivered |-> <<>>]
    /\ UNCHANGED <<level, regular_capacity, ev_capacity, regular_slots,
                   ev_slots, is_initialized>>
    /\ UNCHANGED threads

\* a re-creation that resizes the pools and keeps the vehicles that still fit
ResizeParkingLot(rc, ec, lv, t1) ==
    LET event == Event(LOT_CREATED, CreatedMessage(rc, ec, lv))
        n1 == notify_observers(observers, event, t1)
        Resize(slots, capacity) ==
            [i \in 1..capacity |-> IF i <= Len(slots) THEN slots[i] ELSE EMPTY_SLOT]
    IN  /\ regular_capacity' = rc
        /\ ev_capacity' = ec
        /\ level' = lv
        /\ regular_slots' = Resize(regular_slots, rc)
        /\ ev_slots' = Resize(ev_slots, ec)
        /\ is_initialized' = TRUE
        /\ last' = [op |-> "create_parking_lot",
                    args |-> [regular_capacity |-> rc, ev_capacity |-> ec, level |-> lv],
                    raised |-> n1.raised, result |-> "None",
                    emitted |-> <<event>>, delivered |-> n1.delivered]
        /\ UNCHANGED observers
        /\ UNCHANGED threads

create_parking_lot(rc, ec, lv, t1) ==
    LET event == Event(LOT_CREATED, CreatedMessage(rc, ec, lv))
        n1 == notify_observers(observers, event, t1)
    IN  /\ regular_capacity' = rc
        /\ ev_capacity' = ec
        /\ level' = lv
        /\ regular_slots' = EmptySlots(rc)
        /\ ev_slots' = EmptySlots(ec)
        /\ is_initialized' = TRUE
        /\ last' = [op |-> "create_parking_lot",
                    args |-> [regular_capacity |-> rc, ev_capacity |-> ec, level |-> lv],
                    raised |-> n1.raised, result |-> "None",
                    emitted |-> <<event>>, delivered |-> n1.delivered]
        /\ UNCHANGED observers
        /\ UNCHANGED threads

\* The end of a try block whose last statement is a notification: the value is
\* returned when no observer raises; otherwise the except clause notifies
\* fail_type "Error: ..." and returns fail_value, unless that notification
\* raises too and the exception leaves the method.
TryNotify(obs, event, value, fail_type, fail_value, t1, t2) ==
    LET n1 == notify_observers(obs, event, t1)
        error == Event(fail_type, ErrorMessage)
        n2 == notify_observers(obs, error, t2)
    IN  IF ~n1.raised
        THEN [raised |-> FALSE, result |-> value,
              emitted |-> <<event>>, delivered |-> n1.delivered]
        ELSE IF ~n2.raised
        THEN [raised |-> FALSE, result |-> fail_value,
              emitted |-> <<event, error>>, delivered |-> n1.delivered \o n2.delivered]
        ELSE [raised |-> TRUE, result |-> "None",
              emitted |-> <<event, error>>, delivered |-> n1.delivered \o n2.delivered]

\* a slot number that is the 0-based index itself
SlotNumberIsIndex(slot_index) == slot_index

SlotNumber(slot_index) == slot_index + 1

\* a store that writes one entry too low, except in the first slot
PlaceVehicleBelow(slots, slot_index, vehicle) ==
    [slots EXCEPT ![Max(1, slot_index)] = vehicle]

PlaceVehicle(slots, slot_index, vehicle) == [slots EXCEPT ![slot_index + 1] = vehicle]

ParkArgs(registration_number, make, model, color, is_electric, is_motorcycle) ==
    [registration_number |-> registration_number, make |-> make, model |-> model,
     color |-> color, is_electric |-> is_electric, is_motorcycle |-> is_motorcycle]

\* park_vehicle on a lot that was never created
ParkNotInitialized(registration_number, make, model, color, is_electric, is_motorcycle, t1) ==
    LET event == Event(PARKING_FAILED, NotCreatedMessage)
        n1 == notify_observers(observers, event, t1)
    IN  /\ last' = [op |-> "park_vehicle",
                    args |-> ParkArgs(registration_number, make, model, color,
                                      is_electric, is_motorcycle),
                    raised |-> n1.raised,
                    result |-> IF n1.raised THEN "None" ELSE 0 - 1,
                    emitted |-> <<event>>, delivered |-> n1.delivered]
        /\ UNCHANGED lot
        /\ UNCHANGED threads

\* the try block of park_vehicle
ParkInitialized(registration_number, make, model, color, is_electric, is_motorcycle, t1, t2) ==
    LET vehicle == create_vehicle(registration_number, make, model, color,
                                  is_electric, is_motorcycle)
        electric == IsElectricVehicle(vehicle)
        slots == IF electric THEN ev_slots ELSE regular_slots
        occupied_count == OccupiedCount(slots)
        can_park == IF electric
                    THEN EVCanPark(vehicle, occupied_count, ev_capacity)
                    ELSE StandardCanPark(vehicle, occupied_count, regular_capacity)
        slot_index == IF electric
                      THEN EVFindEmptySlot(ev_slots)
                      ELSE StandardFindEmptySlot(regular_slots)
        slot_type == IF electric THEN "EV" ELSE "regular"
        placed == can_park /\ slot_index >= 0
        slot_number == SlotNumber(slot_index)
        out == IF placed
               THEN TryNotify(observers,
                              Event(VEHICLE_PARKED,
                                    AllocatedMessage(slot_type, slot_number, vehicle)),
                              slot_number, PARKING_FAILED, 0 - 1, t1, t2)
               ELSE TryNotify(observers,
                              Event(PARKING_FAILED, FullMessage(slot_type)),
                              0 - 1, PARKING_FAILED, 0 - 1, t1, t2)
    IN  /\ ev_slots' = IF placed /\ electric
                       THEN PlaceVehicle(ev_slots, slot_index, vehicle)
                       ELSE ev_slots
        /\ regular_slots' = IF placed /\ ~electric
                            THEN PlaceVehicle(regular_slots, slot_index, vehicle)
                            ELSE regular_slots
        /\ last' = [op |-> "park_vehicle",
                    args |-> ParkArgs(registration_number, make, model, color,
                                      is_electric, is_motorcycle),
                    raised |-> out.raised, result |-> out.result,
                    emitted |-> out.emitted, delivered |-> out.delivered]
        /\ UNCHANGED <<level, regular_capacity, ev_capacity, observers, is_initialized>>
        /\ UNCHANGED threads

\* a park_vehicle without the is_initialized guard
ParkUnguarded(registration_number, make, model, color, is_electric, is_motorcycle, t1, t2) ==
    ParkInitialized(registration_number, make, model, color,
                    is_electric, is_motorcycle, t1, t2)

park_vehicle(registration_number, make, model, color, is_electric, is_motorcycle, t1, t2) ==
    IF ~is_initialized
    THEN ParkNotInitialized(registration_number, make, model, color,
                            is_electric, is_motorcycle, t1)
    ELSE ParkInitialized(registration_number, make, model, color,
                         is_electric, is_motorcycle, t1, t2)

\* a conversion that forgets that slot numbers start at 1
SlotIndexSameAsNumber(slot_number) == slot_number

SlotIndex(slot_number) == slot_number - 1

CanRemove(slots, slot_index) ==
    /\ 0 <= slot_index
    /\ slot_index < Len(slots)
    /\ slots[slot_index + 1] # EMPTY_SLOT

\* a removal that closes the gap: later occupants move down one slot
ClearSlotAndCompact(slots, slot_index) ==
    [i \in 1..Len(slots) |->
        IF i <= slot_index THEN slots[i]
        ELSE IF i < Len(slots) THEN slots[i + 1]
        ELSE EMPTY_SLOT]

ClearSlot(slots, slot_index) == [slots EXCEPT ![slot_index + 1] = EMPTY_SLOT]

\* a removal that ignores is_ev_slot and empties the addressed slot of both pools
RemoveFromBothPools(slot_number, is_ev_slot, t1, t2) ==
    LET slot_index == SlotIndex(slot_number)
        slot_type == IF is_ev_slot THEN "EV" ELSE "regular"
        in_ev == CanRemove(ev_slots, slot_index)
        in_regular == CanRemove(regular_slots, slot_index)
        out == TryNotify(observers,
                         Event(REMOVAL_FAILED, UnableMessage(slot_type, slot_number)),
                         in_ev \/ in_regular, REMOVAL_FAILED, FALSE, t1, t2)
    IN  /\ ev_slots' = IF in_ev THEN ClearSlot(ev_slots, slot_index) ELSE ev_slots
        /\ regular_slots' = IF in_regular THEN ClearSlot(regular_slots, slot_index)
                            ELSE regular_slots
        /\ last' = [op |-> "remove_vehicle",
                    args |-> [slot_number |-> slot_number, is_ev_slot |-> is_ev_slot],
                    raised |-> out.raised, result |-> out.result,
                    emitted |-> out.emitted, delivered |-> out.delivered]
        /\ UNCHANGED <<level, regular_capacity, ev_capacity, observers, is_initialized>>
        /\ UNCHANGED threads

remove_vehicle(slot_number, is_ev_slot, t1, t2) ==
    LET slot_index == SlotIndex(slot_number)
        slots == IF is_ev_slot THEN ev_slots ELSE regular_slots
        slot_type == IF is_ev_slot THEN "EV" ELSE "regular"
        removable == CanRemove(slots, slot_index)
        out == IF removable
               THEN TryNotify(observers,
                              Event(VEHICLE_REMOVED,
                                    FreeMessage(slot_type, slot_number,
                                                slots[slot_index + 1])),
                              TRUE, REMOVAL_FAILED, FALSE, t1, t2)
               ELSE TryNotify(observers,
                              Event(REMOVAL_FAILED, UnableMessage(slot_type, slot_number)),
                              FALSE, REMOVAL_FAILED, FALSE, t1, t2)
    IN  /\ ev_slots' = IF removable /\ is_ev_slot
                       THEN ClearSlot(ev_slots, slot_index)
                       ELSE ev_slots
        /\ regular_slots' = IF removable /\ ~is_ev_slot
                            THEN ClearSlot(regular_slots, slot_index)
                            ELSE regular_slots
        /\ last' = [op |-> "remove_vehicle",
                    args |-> [slot_number |-> slot_number, is_ev_slot |-> is_ev_slot],
                    raised |-> out.raised, result |-> out.result,
                    emitted |-> out.emitted, delivered |-> out.delivered]
        /\ UNCHANGED <<level, regular_capacity, ev_capacity, observers, is_initialized>>
        /\ UNCHANGED threads

\* vehicle.charge = value on the electric vehicle parked in an EV slot
set_charge(slot_number, value) ==
    /\ slot_number \in 1..Len(ev_slots)
    /\ ev_slots[slot_number] # EMPTY_SLOT
    /\ IsElectricVehicle(ev_slots[slot_number])
    /\ ev_slots' = [ev_slots EXCEPT ![slot_number].charge = ClampCharge(value)]
    /\ last' = [op |-> "charge.setter",
                args |-> [slot_number |-> slot_number, value |-> value],
                raised |-> FALSE, result |-> "None",
                emitted |-> <<>>, delivered |-> <<>>]
    /\ UNCHANGED <<level, regular_capacity, ev_capacity, regular_slots,
                   observers, is_initialized>>
    /\ UNCHANGED threads

-----------------------------------------------------------------------------
(* Queries *)

\* a lookup that reports the 0-based index instead of the slot number
FindIndexByRegistration(registration) ==
    LET regular == {i \in 1..Len(regular_slots) :
                        /\ regular_slots[i] # EMPTY_SLOT
                        /\ regular_slots[i].regnum = registration}
        ev == {i \in 1..Len(ev_slots) :
                   /\ ev_slots[i] # EMPTY_SLOT
                   /\ ev_slots[i].regnum = registration}
        First(S) == CHOOSE i \in S : \A j \in S : i <= j
    IN  IF regular # {}
        THEN [slot_number |-> First(regular) - 1, type |-> "regular", found |-> TRUE]
        ELSE IF ev # {}
        THEN [slot_number |-> First(ev) - 1, type |-> "EV", found |-> TRUE]
        ELSE [found |-> FALSE]

\* a lookup that scans the EV slots before the regular slots
FindEvFirstByRegistration(registration) ==
    LET regular == {i \in 1..Len(regular_slots) :
                        /\ regular_slots[i] # EMPTY_SLOT
                        /\ regular_slots[i].regnum = registration}
        ev == {i \in 1..Len(ev_slots) :
                   /\ ev_slots[i] # EMPTY_SLOT
                   /\ ev_slots[i].regnum = registration}
        First(S) == CHOOSE i \in S : \A j \in S : i <= j
    IN  IF ev # {}
        THEN [slot_number |-> First(ev), type |-> "EV", found |-> TRUE]
        ELSE IF regular # {}
        THEN [slot_number |-> First(regular), type |-> "regular", found |-> TRUE]
        ELSE [found |-> FALSE]

\* find_slot_by_registration: regular slots first, then EV slots
find_slot_by_registration(registration) ==
    LET regular == {i \in 1..Len(regular_slots) :
                        /\ regular_slots[i] # EMPTY_SLOT
                        /\ regular_slots[i].regnum = registration}
        ev == {i \in 1..Len(ev_slots) :
                   /\ ev_slots[i] # EMPTY_SLOT
                   /\ ev_slots[i].regnum = registration}
        First(S) == CHOOSE i \in S : \A j \in S : i <= j
    IN  IF regular # {}
        THEN [slot_number |-> First(regular), type |-> "regular", found |-> TRUE]
        ELSE IF ev # {}
        THEN [slot_number |-> First(ev), type |-> "EV", found |-> TRUE]
        ELSE [found |-> FALSE]

UpperLetters ==
    <<"A", "B", "C", "D", "E", "F", "G", "H", "I", "J", "K", "L", "M",
      "N", "O", "P", "Q", "R", "S", "T", "U", "V", "W", "X", "Y", "Z">>

LowerLetters ==
    <<"a", "b", "c", "d", "e", "f", "g", "h", "i", "j", "k", "l", "m",
      "n", "o", "p", "q", "r", "s", "t", "u", "v", "w", "x", "y", "z">>

\* str.lower(), on letters A-Z
Lower(str) ==
    [i \in 1..Len(str) |->
        IF \E k \in 1..Len(UpperLetters) : UpperLetters[k] = str[i]
        THEN LowerLetters[CHOOSE k \in 1..Len(UpperLetters) : UpperLetters[k] = str[i]]
        ELSE str[i]]

\* a comparison that forgets to fold the case
ColorMatchesCaseSensitive(vehicle, color) == vehicle.color = color

ColorMatches(vehicle, color) == Lower(vehicle.color) = Lower(color)

\* (slot number, vehicle) of the occupied slots with the color, in list order
MatchesByColor(slots, color) ==
    SelectSeq([i \in 1..Len(slots) |-> <<i, slots[i]>>],
              LAMBDA pair : pair[2] # EMPTY_SLOT /\ ColorMatches(pair[2], color))

find_vehicles_by_color(color) ==
    [regular |-> MatchesByColor(regular_slots, color),
     ev |-> MatchesByColor(ev_slots, color)]

-----------------------------------------------------------------------------
(* The lot driven by one caller whose observers do not raise *)

Next ==
    \/ \E o \in ObserverIds : attach_observer(o)
    \/ \E rc \in Capacities, ec \in Capacities, lv \in Levels :
           create_parking_lot(rc, ec, lv, 0)
    \/ \E v \in SampleVehicles, e \in BOOLEAN :
           park_vehicle(v.registration_number, v.make, v.model, v.color,
                        e, v.is_motorcycle, 0, 0)
    \/ \E n \in SlotNumbers, e \in BOOLEAN : remove_vehicle(n, e, 0, 0)

Spec == Init /\ [][Next]_vars

\* The same lot with observers whose update may raise: any observer of the
\* list may raise during any notification.
NextRaising ==
    \/ \E o \in ObserverIds : attach_observer(o)
    \/ \E rc \in Capacities, ec \in Capacities, lv \in Levels :
       \E t1 \in 0..Len(observers) :
           create_parking_lot(rc, ec, lv, t1)
    \/ \E v \in SampleVehicles, e \in BOOLEAN :
       \E t1 \in 0..Len(observers), t2 \in 0..Len(observers) :
           park_vehicle(v.registration_number, v.make, v.model, v.color,
                        e, v.is_motorcycle, t1, t2)
    \/ \E n \in SlotNumbers, e \in BOOLEAN :
       \E t1 \in 0..Len(observers), t2 \in 0..Len(observers) :
           remove_vehicle(n, e, t1, t2)

SpecRaising == Init /\ [][NextRaising]_vars

\* A small lot with several observers, registered in any order and repeatedly
ManyObserverIds == {"gui", "log", "audit"}

NextObservers ==
    \/ \E o \in ManyObserverIds : attach_observer(o)
    \/ \E rc \in {1}, ec \in {1}, lv \in Levels :
           create_parking_lot(rc, ec, lv, 0)
    \/ \E v \in SampleVehicles, e \in BOOLEAN :
           park_vehicle(v.registration_number, v.make, v.model, v.color,
                        e, v.is_motorcycle, 0, 0)
    \/ \E n \in {1, 2}, e \in BOOLEAN : remove_vehicle(n, e, 0, 0)

SpecObservers == Init /\ [][NextObservers]_vars

\* A small lot with vehicles whose colors differ in case only
ColorVehicles ==
    SampleVehicles \cup
    {[registration_number |-> "DEF456", make |-> "Ford", model |-> "Focus",
      color |-> <<"r", "e", "d">>, is_motorcycle |-> FALSE]}

NextColors ==
    \/ \E o \in ObserverIds : attach_observer(o)
    \/ \E rc \in {2}, ec \in {1}, lv \in Levels :
           create_parking_lot(rc, ec, lv, 0)
    \/ \E v \in ColorVehicles, e \in BOOLEAN :
           park_vehicle(v.registration_number, v.make, v.model, v.color,
                        e, v.is_motorcycle, 0, 0)
    \/ \E n \in {1, 2}, e \in BOOLEAN : remove_vehicle(n, e, 0, 0)

SpecColors == Init /\ [][NextColors]_vars

\* A small lot whose electric vehicles have their charge written
ChargeValues == {0 - 5, 0 - 1, 0, 50, 100, 101, 150}

NextCharge ==
    \/ \E o \in ObserverIds : attach_observer(o)
    \/ \E rc \in {1}, ec \in {2}, lv \in Levels :
           create_parking_lot(rc, ec, lv, 0)
    \/ \E v \in SampleVehicles, e \in BOOLEAN :
           park_vehicle(v.registration_number, v.make, v.model, v.color,
                        e, v.is_motorcycle, 0, 0)
    \/ \E n \in {1, 2}, e \in BOOLEAN : remove_vehicle(n, e, 0, 0)
    \/ \E n \in {1, 2}, value \in ChargeValues : set_charge(n, value)

SpecCharge == Init /\ [][NextCharge]_vars

-----------------------------------------------------------------------------
(* Several callers inside the lot at once.  A caller's position is the       *)
(* statement of park_vehicle, remove_vehicle, create_parking_lot or          *)
(* attach_observer it executes next, and inside a loop over a list the       *)
(* element it reads next; its locals are kept between its steps, and any     *)
(* step of one caller may run between two steps of the other.  A statement   *)
(* that touches only locals is part of the step before it.  The lock is the  *)
(* per-lot mutex a multi-caller deployment holds for the duration of a park  *)
(* or a remove; the code itself takes none, and create_parking_lot and       *)
(* attach_observer run outside it.                                           *)

\* there is no mutex, or nobody holds it
LockFree == lock.enabled => lock.holder = 0

Acquire(c) == IF lock.enabled THEN [lock EXCEPT !.holder = c] ELSE lock

Release == IF lock.enabled THEN [lock EXCEPT !.holder = 0] ELSE lock

\* the pool park_vehicle works on for the vehicle
PoolOf(vehicle) == IF IsElectricVehicle(vehicle) THEN ev_slots ELSE regular_slots

\* the vehicle each caller parks
CallerVehicle(c) == CHOOSE v \in SampleVehicles : v.is_motorcycle = (c = 2)

\* a call has returned: its locals are gone, the caller has the result
Returned(me, result) ==
    [IdleCaller EXCEPT !.pc = "returned", !.op = me.op, !.args = me.args,
                       !.vehicle = me.vehicle, !.overwrote = me.overwrote,
                       !.result = result]

\* the caller enters notify_observers(event) as the last statement before
\* `return value`
Notifying(me, event, value) ==
    [me EXCEPT !.pc = "notify", !.event = event, !.value = value,
               !.index = 0, !.delivered = <<>>]

\* for observer in self.observers: observer.update(event_type, message), one
\* observer; the list is the lot's own and may have grown since the last one
Deliver(c) ==
    LET me == callers[c]
    IN  /\ me.pc = "notify"
        /\ me.index < Len(observers)
        /\ callers' = [callers EXCEPT
               ![c].index = me.index + 1,
               ![c].delivered = Append(me.delivered,
                                       [observer |-> observers[me.index + 1],
                                        event |-> me.event])]
        /\ UNCHANGED <<lot, last, lock>>

\* the loop of notify_observers finds no further observer; the call returns
\* its value
NotifyReturn(c) ==
    LET me == callers[c]
    IN  /\ me.pc = "notify"
        /\ me.index >= Len(observers)
        /\ last' = [op |-> me.op, args |-> me.args, raised |-> FALSE,
                    result |-> me.value, emitted |-> <<me.event>>,
                    delivered |-> me.delivered]
        /\ callers' = [callers EXCEPT ![c] = Returned(me, me.value)]
        /\ lock' = IF me.op \in {"park_vehicle", "remove_vehicle"}
                   THEN Release ELSE lock
        /\ UNCHANGED lot

\* the list a loop or a local of the caller refers to: the lot's pool, or the
\* list the lot had before create_parking_lot replaced it
Referred(me, is_ev_slot) ==
    IF me.slots = "replaced" THEN me.replaced
    ELSE IF is_ev_slot THEN ev_slots ELSE regular_slots

\* entry of park_vehicle: the is_initialized test; on a created lot the
\* vehicle is built, otherwise PARKING_FAILED "Please create parking lot
\* first" is notified and -1 returned
ParkEnter(c, registration_number, make, model, color, is_electric, is_motorcycle) ==
    LET entered == [IdleCaller EXCEPT
                        !.op = "park_vehicle",
                        !.args = ParkArgs(registration_number, make, model, color,
                                          is_electric, is_motorcycle)]
    IN  /\ callers[c].pc = "idle"
        /\ LockFree
        /\ callers' = [callers EXCEPT ![c] =
               IF is_initialized
               THEN [entered EXCEPT
                         !.pc = "count",
                         !.vehicle = create_vehicle(registration_number, make, model,
                                                    color, is_electric, is_motorcycle)]
               ELSE Notifying(entered, Event(PARKING_FAILED, NotCreatedMessage), 0 - 1)]
        /\ lock' = Acquire(c)
        /\ UNCHANGED <<lot, last>>

\* occupied_count = sum(1 for slot in slots if slot is not EMPTY_SLOT): one
\* element of the list the generator was started on
ParkCount(c) ==
    LET me == callers[c]
        slots == Referred(me, IsElectricVehicle(me.vehicle))
        occupied_count == IF Len(slots) = 0 THEN 0
                          ELSE IF slots[me.index + 1] # EMPTY_SLOT
                               THEN me.occupied_count + 1
                               ELSE me.occupied_count
        finished == me.index + 1 >= Len(slots)
    IN  /\ me.pc = "count"
        /\ callers' = [callers EXCEPT ![c] =
               [me EXCEPT !.occupied_count = occupied_count,
                          !.pc = IF finished THEN "can_park" ELSE "count",
                          !.index = IF finished THEN 0 ELSE me.index + 1,
                          !.slots = IF finished THEN ""
                                    ELSE IF me.slots = "" THEN "lot" ELSE me.slots,
                          !.replaced = IF finished THEN <<>> ELSE me.replaced]]
        /\ UNCHANGED <<lot, last, lock>>

\* if strategy.can_park(vehicle, occupied_count, capacity): otherwise
\* PARKING_FAILED "lot is full" is notified and -1 returned
ParkCanPark(c) ==
    LET me == callers[c]
        electric == IsElectricVehicle(me.vehicle)
        can_park == IF electric
                    THEN EVCanPark(me.vehicle, me.occupied_count, ev_capacity)
                    ELSE StandardCanPark(me.vehicle, me.occupied_count, regular_capacity)
        slot_type == IF electric THEN "EV" ELSE "regular"
    IN  /\ me.pc = "can_park"
        /\ callers' = [callers EXCEPT ![c] =
               IF can_park THEN [me EXCEPT !.pc = "find"]
               ELSE Notifying(me, Event(PARKING_FAILED, FullMessage(slot_type)), 0 - 1)]
        /\ UNCHANGED <<lot, last, lock>>

\* slot_index = strategy.find_empty_slot(slots): one element of the list the
\* loop was started on; if slot is EMPTY_SLOT: return index; after the last
\* one return -1, and PARKING_FAILED "lot is full" is notified
ParkFind(c) ==
    LET me == callers[c]
        electric == IsElectricVehicle(me.vehicle)
        slots == Referred(me, electric)
        slot_type == IF electric THEN "EV" ELSE "regular"
        found == Len(slots) > 0 /\ slots[me.index + 1] = EMPTY_SLOT
        finished == me.index + 1 >= Len(slots)
        left == [me EXCEPT !.index = 0, !.slots = "", !.replaced = <<>>]
    IN  /\ me.pc = "find"
        /\ callers' = [callers EXCEPT ![c] =
               IF found
               THEN [left EXCEPT !.pc = "place", !.slot_index = me.index]
               ELSE IF finished
               THEN Notifying([left EXCEPT !.slot_index = 0 - 1],
                              Event(PARKING_FAILED, FullMessage(slot_type)), 0 - 1)
               ELSE [me EXCEPT !.index = me.index + 1,
                               !.slots = IF me.slots = "" THEN "lot" ELSE me.slots]]
        /\ UNCHANGED <<lot, last, lock>>

\* slots[slot_index] = vehicle, on the list the lot has now, then
\* VEHICLE_PARKED is notified and slot_index + 1 returned; an IndexError when
\* that list is shorter than the one scanned, then PARKING_FAILED "Error" is
\* notified and -1 returned.  The caller remembers whether the store added
\* no occupant, that is, whether it replaced a vehicle
ParkPlace(c) ==
    LET me == callers[c]
        electric == IsElectricVehicle(me.vehicle)
        slots == PoolOf(me.vehicle)
        in_range == me.slot_index < Len(slots)
        after == IF in_range THEN PlaceVehicle(slots, me.slot_index, me.vehicle)
                 ELSE slots
        slot_type == IF electric THEN "EV" ELSE "regular"
        slot_number == SlotNumber(me.slot_index)
        stored == [me EXCEPT !.overwrote =
                       (in_range /\ OccupiedCount(after) <= OccupiedCount(slots))]
    IN  /\ me.pc = "place"
        /\ ev_slots' = IF electric THEN after ELSE ev_slots
        /\ regular_slots' = IF electric THEN regular_slots ELSE after
        /\ callers' = [callers EXCEPT ![c] =
               IF in_range
               THEN Notifying(stored,
                              Event(VEHICLE_PARKED,
                                    AllocatedMessage(slot_type, slot_number, me.vehicle)),
                              slot_number)
               ELSE Notifying(stored, Event(PARKING_FAILED, ErrorMessage), 0 - 1)]
        /\ UNCHANGED <<level, regular_capacity, ev_capacity, observers,
                       is_initialized, last, lock>>

\* entry of remove_vehicle: slot_index = slot_number - 1 and
\* slots = self.ev_slots if is_ev_slot else self.regular_slots, a reference
\* to the list the lot has now
RemoveEnter(c, slot_number, is_ev_slot) ==
    /\ callers[c].pc = "idle"
    /\ LockFree
    /\ callers' = [callers EXCEPT ![c] =
           [IdleCaller EXCEPT
                !.pc = "test",
                !.op = "remove_vehicle",
                !.args = [slot_number |-> slot_number, is_ev_slot |-> is_ev_slot],
                !.slot_index = SlotIndex(slot_number),
                !.slots = "lot"]]
    /\ lock' = Acquire(c)
    /\ UNCHANGED <<lot, last>>

\* if 0 <= slot_index < len(slots) and slots[slot_index] is not EMPTY_SLOT:
\* otherwise REMOVAL_FAILED "Unable to remove vehicle" is notified and False
\* returned
RemoveTest(c) ==
    LET me == callers[c]
        slot_type == IF me.args.is_ev_slot THEN "EV" ELSE "regular"
    IN  /\ me.pc = "test"
        /\ callers' = [callers EXCEPT ![c] =
               IF CanRemove(Referred(me, me.args.is_ev_slot), me.slot_index)
               THEN [me EXCEPT !.pc = "read"]
               ELSE Notifying(me,
                              Event(REMOVAL_FAILED,
                                    UnableMessage(slot_type, me.args.slot_number)),
                              FALSE)]
        /\ UNCHANGED <<lot, last, lock>>

\* vehicle = slots[slot_index]
RemoveRead(c) ==
    LET me == callers[c]
    IN  /\ me.pc = "read"
        /\ callers' = [callers EXCEPT
               ![c].pc = "clear",
               ![c].vehicle = Referred(me, me.args.is_ev_slot)[me.slot_index + 1]]
        /\ UNCHANGED <<lot, last, lock>>

\* slots[slot_index] = EMPTY_SLOT, in the list `slots` refers to; then the
\* message with vehicle.regnum, VEHICLE_REMOVED is notified and True
\* returned; when vehicle is None the message raises AttributeError,
\* REMOVAL_FAILED "Error" is notified and False returned
RemoveClear(c) ==
    LET me == callers[c]
        cleared == ClearSlot(Referred(me, me.args.is_ev_slot), me.slot_index)
        in_lot == me.slots = "lot"
        slot_type == IF me.args.is_ev_slot THEN "EV" ELSE "regular"
        written == [me EXCEPT !.replaced = IF in_lot THEN me.replaced ELSE cleared]
    IN  /\ me.pc = "clear"
        /\ ev_slots' = IF in_lot /\ me.args.is_ev_slot THEN cleared ELSE ev_slots
        /\ regular_slots' = IF in_lot /\ ~me.args.is_ev_slot THEN cleared
                            ELSE regular_slots
        /\ callers' = [callers EXCEPT ![c] =
               IF me.vehicle = EMPTY_SLOT
               THEN Notifying(written, Event(REMOVAL_FAILED, ErrorMessage), FALSE)
               ELSE Notifying(written,
                              Event(VEHICLE_REMOVED,
                                    FreeMessage(slot_type, me.args.slot_number,
                                                me.vehicle)),
                              TRUE)]
        /\ UNCHANGED <<level, regular_capacity, ev_capacity, observers,
                       is_initialized, last, lock>>

\* The callers after the lot's pool (EV or regular) is replaced by a new list:
\* a loop or a local of another caller that refers to the pool keeps the old
\* list
KeepReplaced(c, is_ev_slot, pc) ==
    [d \in CallerIds |->
        IF d = c THEN [callers[c] EXCEPT !.pc = pc]
        ELSE IF /\ callers[d].slots = "lot"
                /\ is_ev_slot = (IF callers[d].op = "park_vehicle"
                                 THEN IsElectricVehicle(callers[d].vehicle)
                                 ELSE callers[d].args.is_ev_slot)
             THEN [callers[d] EXCEPT
                       !.slots = "replaced",
                       !.replaced = IF is_ev_slot THEN ev_slots ELSE regular_slots]
             ELSE callers[d]]

\* entry of create_parking_lot: self.regular_capacity = regular_capacity
CreateEnter(c, rc, ec, lv) ==
    /\ callers[c].pc = "idle"
    /\ regular_capacity' = rc
    /\ callers' = [callers EXCEPT ![c] =
           [IdleCaller EXCEPT
                !.pc = "ev_capacity",
                !.op = "create_parking_lot",
                !.args = [regular_capacity |-> rc, ev_capacity |-> ec, level |-> lv]]]
    /\ UNCHANGED <<level, ev_capacity, regular_slots, ev_slots, observers,
                   is_initialized, last, lock>>

\* self.ev_capacity = ev_capacity
CreateEvCapacity(c) ==
    /\ callers[c].pc = "ev_capacity"
    /\ ev_capacity' = callers[c].args.ev_capacity
    /\ callers' = [callers EXCEPT ![c].pc = "level"]
    /\ UNCHANGED <<level, regular_capacity, regular_slots, ev_slots, observers,
                   is_initialized, last, lock>>

\* self.level = level
CreateLevel(c) ==
    /\ callers[c].pc = "level"
    /\ level' = callers[c].args.level
    /\ callers' = [callers EXCEPT ![c].pc = "regular_slots"]
    /\ UNCHANGED <<regular_capacity, ev_capacity, regular_slots, ev_slots,
                   observers, is_initialized, last, lock>>

\* self.regular_slots = [EMPTY_SLOT] * regular_capacity
CreateRegularSlots(c) ==
    /\ callers[c].pc = "regular_slots"
    /\ regular_slots' = EmptySlots(callers[c].args.regular_capacity)
    /\ callers' = KeepReplaced(c, FALSE, "ev_slots")
    /\ UNCHANGED <<level, regular_capacity, ev_capacity, ev_slots, observers,
                   is_initialized, last, lock>>

\* self.ev_slots = [EMPTY_SLOT] * ev_capacity
CreateEvSlots(c) ==
    /\ callers[c].pc = "ev_slots"
    /\ ev_slots' = EmptySlots(callers[c].args.ev_capacity)
    /\ callers' = KeepReplaced(c, TRUE, "is_initialized")
    /\ UNCHANGED <<level, regular_capacity, ev_capacity, regular_slots, observers,
                   is_initialized, last, lock>>

\* self.is_initialized = True; then LOT_CREATED is notified
CreateInitialized(c) ==
    LET me == callers[c]
    IN  /\ me.pc = "is_initialized"
        /\ is_initialized' = TRUE
        /\ callers' = [callers EXCEPT ![c] =
               Notifying(me,
                         Event(LOT_CREATED,
                               CreatedMessage(me.args.regular_capacity,
                                              me.args.ev_capacity, me.args.level)),
                         "None")]
        /\ UNCHANGED <<level, regular_capacity, ev_capacity, regular_slots, ev_slots,
                       observers, last, lock>>

\* the `last` an attach_observer call leaves
Attached(observer) ==
    [op |-> "attach_observer", args |-> [observer |-> observer],
     raised |-> FALSE, result |-> "None", emitted |-> <<>>, delivered |-> <<>>]

\* entry of attach_observer: if observer not in self.observers; the call
\* returns when the observer is in the list
AttachTest(c, observer) ==
    LET entered == [IdleCaller EXCEPT !.op = "attach_observer",
                                      !.args = [observer |-> observer]]
        known == \E i \in 1..Len(observers) : observers[i] = observer
    IN  /\ callers[c].pc = "idle"
        /\ callers' = [callers EXCEPT ![c] =
               IF known THEN Returned(entered, "None")
               ELSE [entered EXCEPT !.pc = "append"]]
        /\ last' = IF known THEN Attached(observer) ELSE last
        /\ UNCHANGED <<lot, lock>>

\* self.observers.append(observer); the call returns
AttachAppend(c) ==
    LET me == callers[c]
    IN  /\ me.pc = "append"
        /\ observers' = Append(observers, me.args.observer)
        /\ last' = Attached(me.args.observer)
        /\ callers' = [callers EXCEPT ![c] = Returned(me, "None")]
        /\ UNCHANGED <<level, regular_capacity, ev_capacity, regular_slots, ev_slots,
                       is_initialized, lock>>

\* the caller has the returned value and is ready for its next call
CallDone(c) ==
    /\ callers[c].pc = "returned"
    /\ callers' = [callers EXCEPT ![c] = IdleCaller]
    /\ UNCHANGED <<lot, last, lock>>

\* the lots the callers create: the second is shorter than the first
RaceCapacities == {<<2, 0>>, <<1, 0>>}

\* the callers park non-electric vehicles and remove from the regular pool
RaceElectric == {FALSE}

NextRace ==
    \/ \E c \in CallerIds, e \in RaceElectric :
           ParkEnter(c, CallerVehicle(c).registration_number, CallerVehicle(c).make,
                     CallerVehicle(c).model, CallerVehicle(c).color,
                     e, CallerVehicle(c).is_motorcycle)
    \/ \E c \in CallerIds : ParkCount(c)
    \/ \E c \in CallerIds : ParkCanPark(c)
    \/ \E c \in CallerIds : ParkFind(c)
    \/ \E c \in CallerIds : ParkPlace(c)
    \/ \E c \in CallerIds, n \in {1, 2}, e \in RaceElectric : RemoveEnter(c, n, e)
    \/ \E c \in CallerIds : RemoveTest(c)
    \/ \E c \in CallerIds : RemoveRead(c)
    \/ \E c \in CallerIds : RemoveClear(c)
    \/ \E c \in CallerIds, cap \in RaceCapacities, lv \in Levels :
           CreateEnter(c, cap[1], cap[2], lv)
    \/ \E c \in CallerIds : CreateEvCapacity(c)
    \/ \E c \in CallerIds : CreateLevel(c)
    \/ \E c \in CallerIds : CreateRegularSlots(c)
    \/ \E c \in CallerIds : CreateEvSlots(c)
    \/ \E c \in CallerIds : CreateInitialized(c)
    \/ \E c \in CallerIds, o \in ObserverIds : AttachTest(c, o)
    \/ \E c \in CallerIds : AttachAppend(c)
    \/ \E c \in CallerIds : Deliver(c)
    \/ \E c \in CallerIds : NotifyReturn(c)
    \/ \E c \in CallerIds : CallDone(c)

\* with and without the mutex
InitRace == InitLot /\ lock \in {NoLock, FreeLock}

SpecRace == InitRace /\ [][NextRace]_vars

-----------------------------------------------------------------------------
(* The query operations as calls: each returns its value and assigns to no  *)
(* field of the lot and notifies nobody.                                     *)

\* [(i+1, vehicle) for i, vehicle in enumerate(slots) if vehicle is not EMPTY_SLOT]
OccupiedSlots(slots) ==
    SelectSeq([i \in 1..Len(slots) |-> <<i, slots[i]>>],
              LAMBDA pair : pair[2] # EMPTY_SLOT)

get_all_regular_vehicles ==
    /\ last' = [op |-> "get_all_regular_vehicles", args |-> <<>>,
                raised |-> FALSE, result |-> OccupiedSlots(regular_slots),
                emitted |-> <<>>, delivered |-> <<>>]
    /\ UNCHANGED lot
    /\ UNCHANGED threads

get_all_ev_vehicles ==
    /\ last' = [op |-> "get_all_ev_vehicles", args |-> <<>>,
                raised |-> FALSE, result |-> OccupiedSlots(ev_slots),
                emitted |-> <<>>, delivered |-> <<>>]
    /\ UNCHANGED lot
    /\ UNCHANGED threads

\* a call of find_slot_by_registration
FindSlotByRegistrationCall(registration) ==
    /\ last' = [op |-> "find_slot_by_registration",
                args |-> [registration |-> registration],
                raised |-> FALSE, result |-> find_slot_by_registration(registration),
                emitted |-> <<>>, delivered |-> <<>>]
    /\ UNCHANGED lot
    /\ UNCHANGED threads

\* a call of find_vehicles_by_color
FindVehiclesByColorCall(color) ==
    /\ last' = [op |-> "find_vehicles_by_color", args |-> [color |-> color],
                raised |-> FALSE, result |-> find_vehicles_by_color(color),
                emitted |-> <<>>, delivered |-> <<>>]
    /\ UNCHANGED lot
    /\ UNCHANGED threads

\* what the callers of the queries ask for
AskedRegistrations == {"ABC123", "NONE00"}
AskedColors == {<<"r", "e", "d">>, <<"b", "l", "u", "e">>}

\* A small lot that is parked in, removed from and queried, with an observer
\* whose update may raise
NextQueries ==
    \/ \E o \in ObserverIds : attach_observer(o)
    \/ \E rc \in {2}, ec \in {1}, lv \in Levels :
       \E t1 \in 0..Len(observers) :
           create_parking_lot(rc, ec, lv, t1)
    \/ \E v \in SampleVehicles, e \in BOOLEAN :
       \E t1 \in 0..Len(observers), t2 \in 0..Len(observers) :
           park_vehicle(v.registration_number, v.make, v.model, v.color,
                        e, v.is_motorcycle, t1, t2)
    \/ \E n \in {0, 1, 2, 3}, e \in BOOLEAN :
       \E t1 \in 0..Len(observers), t2 \in 0..Len(observers) :
           remove_vehicle(n, e, t1, t2)
    \/ get_all_regular_vehicles
    \/ get_all_ev_vehicles
    \/ \E registration \in AskedRegistrations : FindSlotByRegistrationCall(registration)
    \/ \E color \in AskedColors : FindVehiclesByColorCall(color)

SpecQueries == Init /\ [][NextQueries]_vars

-----------------------------------------------------------------------------
(* Properties.  A step whose new `last` names an operation is a call of that  *)
(* operation: unprimed variables are the lot before the call, primed ones the *)
(* lot after it.                                                              *)

Parked(call) == call.op = "park_vehicle" /\ ~call.raised /\ call.result >= 1

PoolTypeOf(is_electric) == IF is_electric THEN "EV" ELSE "regular"

\* the failure kinds of the error taxonomy, as the event messages tell them apart
FailureKind(event) ==
    IF event.message.text = "Please create parking lot first" THEN "NotInitialized"
    ELSE IF event.message.text = "Sorry, parking lot is full" THEN "PoolFull"
    ELSE IF event.message.text = "Unable to remove vehicle from slot" THEN "InvalidSlot"
    ELSE "Error"

\* C1: first-fit allocation.  In an initialized lot a successful park returns
\* n = 1 + the lowest index of an empty slot of the target pool before the
\* call, with 1 <= n <= capacity of that pool, and afterwards slot n of that
\* pool holds the vehicle that was parked.
FirstFit ==
    [][(is_initialized /\ Parked(last')) =>
        LET a == last'.args
            n == last'.result
            before == IF a.is_electric THEN ev_slots ELSE regular_slots
            after == IF a.is_electric THEN ev_slots' ELSE regular_slots'
            capacity == IF a.is_electric THEN ev_capacity ELSE regular_capacity
        IN  /\ 1 <= n
            /\ n <= capacity
            /\ n <= Len(before)
            /\ before[n] = EMPTY_SLOT
            /\ \A j \in 1..(n - 1) : before[j] # EMPTY_SLOT
            /\ after[n] # EMPTY_SLOT
            /\ after[n].regnum = a.registration_number
            /\ after[n].make = a.make
            /\ after[n].model = a.model
            /\ after[n].color = a.color
            /\ IsElectricVehicle(after[n]) = a.is_electric
            /\ (get_type(after[n]) = "Motorcycle") = a.is_motorcycle]_vars

\* C1 witness: a park returned slot 1 of the regular pool while slot 2 is
\* occupied, so it filled a hole that a removal had left below an occupant.
FirstFitWitness ==
    /\ Parked(last)
    /\ ~last.args.is_electric
    /\ last.result = 1
    /\ Len(regular_slots) >= 2
    /\ regular_slots[2] # EMPTY_SLOT
    /\ regular_slots[1].regnum = last.args.registration_number

\* C2 (as stated): in an initialized lot park fails with PoolFull, naming the
\* target pool, exactly when the occupied count of the target pool equals that
\* pool's capacity, and then no slot changes; otherwise the vehicle goes into
\* the target pool and the other pool is untouched.
CapacityEnforcement ==
    [][(is_initialized /\ last'.op = "park_vehicle") =>
        LET a == last'.args
            target == IF a.is_electric THEN ev_slots ELSE regular_slots
            capacity == IF a.is_electric THEN ev_capacity ELSE regular_capacity
            pool_full == /\ ~last'.raised
                         /\ last'.result = 0 - 1
                         /\ Len(last'.emitted) = 1
                         /\ last'.emitted[1].type = PARKING_FAILED
                         /\ FailureKind(last'.emitted[1]) = "PoolFull"
                         /\ last'.emitted[1].message.strs = <<PoolTypeOf(a.is_electric)>>
        IN  /\ pool_full <=> (OccupiedCount(target) = capacity)
            /\ pool_full => (regular_slots' = regular_slots /\ ev_slots' = ev_slots)
            /\ a.is_electric => regular_slots' = regular_slots
            /\ ~a.is_electric => ev_slots' = ev_slots]_vars

\* C3: create_lot(r, e, level) with r, e >= 0 never fails, whatever the lot
\* held before, and leaves it initialized with exactly r empty regular slots
\* and e empty EV slots (occupied count 0 in both pools).
CreateResets ==
    (/\ last.op = "create_parking_lot"
     /\ last.args.regular_capacity >= 0
     /\ last.args.ev_capacity >= 0)
    => /\ ~last.raised
       /\ is_initialized
       /\ regular_capacity = last.args.regular_capacity
       /\ ev_capacity = last.args.ev_capacity
       /\ level = last.args.level
       /\ Len(regular_slots) = last.args.regular_capacity
       /\ Len(ev_slots) = last.args.ev_capacity
       /\ \A i \in 1..Len(regular_slots) : regular_slots[i] = EMPTY_SLOT
       /\ \A i \in 1..Len(ev_slots) : ev_slots[i] = EMPTY_SLOT
       /\ OccupiedCount(regular_slots) = 0
       /\ OccupiedCount(ev_slots) = 0
       /\ Len(last.emitted) = 1
       /\ last.emitted[1].type = LOT_CREATED

\* C3 witness: a lot was just created with two regular slots and one EV slot
\* and told its observer so.
CreateResetsWitness ==
    /\ last.op = "create_parking_lot"
    /\ last.args.regular_capacity = 2
    /\ last.args.ev_capacity = 1
    /\ regular_slots = <<EMPTY_SLOT, EMPTY_SLOT>>
    /\ ev_slots = <<EMPTY_SLOT>>
    /\ Len(last.delivered) = 1

\* C4 (as stated): if park returns slot n, find_by_registration of the same
\* registration right afterwards returns found, slot n and the pool the
\* vehicle was parked in, also when another parked vehicle carries the
\* same registration.
RoundTripLookup ==
    Parked(last) =>
        find_slot_by_registration(last.args.registration_number)
            = [slot_number |-> last.result,
               type |-> PoolTypeOf(last.args.is_electric),
               found |-> TRUE]

\* some other parked vehicle with the registration of the latest park stands
\* before the newly filled slot in the order of the lookup's scan: regular
\* slots ascending, then EV slots ascending
EarlierSameRegistration ==
    LET a == last.args
        n == last.result
    IN  \/ \E i \in 1..Len(regular_slots) :
              /\ regular_slots[i] # EMPTY_SLOT
              /\ regular_slots[i].regnum = a.registration_number
              /\ (a.is_electric \/ i < n)
        \/ /\ a.is_electric
           /\ \E i \in 1..(n - 1) :
                 /\ ev_slots[i] # EMPTY_SLOT
                 /\ ev_slots[i].regnum = a.registration_number

\* C4 (amended): if park returns slot n, the lookup right afterwards always
\* returns found; it returns slot n and the pool of the park exactly when no
\* other parked vehicle with that registration comes earlier in the scan
\* order, and otherwise it returns the slot of such an earlier vehicle.
RoundTripLookupUnlessEarlier ==
    Parked(last) =>
        LET r == find_slot_by_registration(last.args.registration_number)
            pool == IF r.type = "EV" THEN ev_slots ELSE regular_slots
        IN  /\ r.found
            /\ r.slot_number \in 1..Len(pool)
            /\ pool[r.slot_number] # EMPTY_SLOT
            /\ pool[r.slot_number].regnum = last.args.registration_number
            /\ ~EarlierSameRegistration <=>
                   (/\ r.slot_number = last.result
                    /\ r.type = PoolTypeOf(last.args.is_electric))

\* C4 witness: a vehicle was parked in regular slot 1 while regular slot 2
\* and an EV slot hold vehicles with the same registration; the lookup finds
\* slot 1.
RoundTripLookupWitness ==
    /\ Parked(last)
    /\ ~last.args.is_electric
    /\ last.result = 1
    /\ Len(regular_slots) >= 2
    /\ regular_slots[2] # EMPTY_SLOT
    /\ regular_slots[2].regnum = last.args.registration_number
    /\ \E i \in 1..Len(ev_slots) :
          ev_slots[i] # EMPTY_SLOT /\ ev_slots[i].regnum = last.args.registration_number
    /\ find_slot_by_registration(last.args.registration_number).slot_number = 1

\* the slot a remove call addresses is one of the selected pool and is occupied
AddressesOccupied(slots, capacity, slot_number) ==
    /\ 0 <= slot_number - 1
    /\ slot_number - 1 < capacity
    /\ slot_number <= Len(slots)
    /\ slots[slot_number] # EMPTY_SLOT

\* C5: remove(slot_number, is_ev_pool) fails with InvalidSlot whenever
\* slot_number - 1 is outside [0, capacity) of the selected pool or the
\* addressed slot is empty; the failed call returns failure, changes no slot
\* of either pool and emits exactly one RemovalFailed event, naming the pool
\* and the requested slot number, and no VehicleRemoved event.
FailedRemoval ==
    [][(/\ last'.op = "remove_vehicle"
        /\ ~AddressesOccupied(IF last'.args.is_ev_slot THEN ev_slots ELSE regular_slots,
                              IF last'.args.is_ev_slot THEN ev_capacity
                                                       ELSE regular_capacity,
                              last'.args.slot_number))
       => /\ ~last'.raised
          /\ last'.result = FALSE
          /\ regular_slots' = regular_slots
          /\ ev_slots' = ev_slots
          /\ Len(last'.emitted) = 1
          /\ last'.emitted[1].type = REMOVAL_FAILED
          /\ FailureKind(last'.emitted[1]) = "InvalidSlot"
          /\ last'.emitted[1].message.strs = <<PoolTypeOf(last'.args.is_ev_slot)>>
          /\ last'.emitted[1].message.nums = <<last'.args.slot_number>>]_vars

\* C5 witness: a remove of an empty slot inside the regular pool just failed,
\* next to an occupied slot that it left alone, and the observer was told.
FailedRemovalWitness ==
    /\ last.op = "remove_vehicle"
    /\ last.result = FALSE
    /\ ~last.args.is_ev_slot
    /\ last.args.slot_number \in 1..Len(regular_slots)
    /\ regular_slots[last.args.slot_number] = EMPTY_SLOT
    /\ OccupiedCount(regular_slots) = 1
    /\ Len(last.delivered) = 1
    /\ last.delivered[1].event.type = REMOVAL_FAILED

\* C6: a remove that addresses an occupied slot succeeds, empties exactly that
\* slot, keeps every other slot of both pools and both pool lengths as they
\* were, and emits a single VehicleRemoved event carrying the registration of
\* the vehicle that was in the slot.
RemovalLeavesHole ==
    [][(/\ last'.op = "remove_vehicle"
        /\ AddressesOccupied(IF last'.args.is_ev_slot THEN ev_slots ELSE regular_slots,
                             IF last'.args.is_ev_slot THEN ev_capacity
                                                      ELSE regular_capacity,
                             last'.args.slot_number))
       => LET n == last'.args.slot_number
              ev == last'.args.is_ev_slot
              before == IF ev THEN ev_slots ELSE regular_slots
              after == IF ev THEN ev_slots' ELSE regular_slots'
          IN  /\ ~last'.raised
              /\ last'.result = TRUE
              /\ Len(after) = Len(before)
              /\ after[n] = EMPTY_SLOT
              /\ \A i \in 1..Len(before) : i # n => after[i] = before[i]
              /\ ev => regular_slots' = regular_slots
              /\ ~ev => ev_slots' = ev_slots
              /\ Len(last'.emitted) = 1
              /\ last'.emitted[1].type = VEHICLE_REMOVED
              /\ last'.emitted[1].message.strs
                     = <<PoolTypeOf(ev), before[n].regnum>>
              /\ last'.emitted[1].message.nums = <<n>>]_vars

\* C6 witness: regular slot 1 was just removed and the vehicle in regular
\* slot 2 is still in slot 2.
RemovalLeavesHoleWitness ==
    /\ last.op = "remove_vehicle"
    /\ last.result = TRUE
    /\ ~last.args.is_ev_slot
    /\ last.args.slot_number = 1
    /\ Len(regular_slots) >= 2
    /\ regular_slots[1] = EMPTY_SLOT
    /\ regular_slots[2] # EMPTY_SLOT
    /\ last.emitted[1].type = VEHICLE_REMOVED

\* C7 (as stated): in every reachable state each pool's slot sequence is as
\* long as the pool's recorded capacity and its occupied count is at most
\* that capacity.
CapacityInvariant ==
    /\ Len(regular_slots) = regular_capacity
    /\ Len(ev_slots) = ev_capacity
    /\ OccupiedCount(regular_slots) <= regular_capacity
    /\ OccupiedCount(ev_slots) <= ev_capacity

\* C8: park before any create_lot fails with NotInitialized: it returns -1,
\* emits exactly one ParkingFailed event and no VehicleParked event, and
\* leaves the lot uninitialized with both pools unchanged.
ParkBeforeCreate ==
    [][(~is_initialized /\ last'.op = "park_vehicle")
       => /\ ~last'.raised
          /\ last'.result = 0 - 1
          /\ Len(last'.emitted) = 1
          /\ last'.emitted[1].type = PARKING_FAILED
          /\ FailureKind(last'.emitted[1]) = "NotInitialized"
          /\ ~is_initialized'
          /\ regular_slots' = regular_slots
          /\ ev_slots' = ev_slots
          /\ UNCHANGED lot]_vars

\* C8 witness: an electric motorcycle was refused by a lot that was never
\* created, and the attached observer received the ParkingFailed event.
ParkBeforeCreateWitness ==
    /\ ~is_initialized
    /\ last.op = "park_vehicle"
    /\ last.args.is_electric
    /\ last.args.is_motorcycle
    /\ last.result = 0 - 1
    /\ Len(last.delivered) = 1
    /\ last.delivered[1].event.type = PARKING_FAILED

\* C9 (as stated): remove before any create_lot fails with NotInitialized, a
\* failure kind distinct from InvalidSlot, and leaves the lot uninitialized
\* and unchanged.
RemoveBeforeCreate ==
    [][(~is_initialized /\ last'.op = "remove_vehicle")
       => /\ ~last'.raised
          /\ last'.result = FALSE
          /\ Len(last'.emitted) = 1
          /\ last'.emitted[1].type = REMOVAL_FAILED
          /\ FailureKind(last'.emitted[1]) = "NotInitialized"
          /\ UNCHANGED lot]_vars

\* C10 (as stated): create_lot with a negative regular or EV capacity does not
\* create or reset the lot: initialized, level, both capacities and both pools
\* keep their values and no LotCreated event is emitted.
CreateRejectsNegative ==
    [][(/\ last'.op = "create_parking_lot"
        /\ (last'.args.regular_capacity < 0 \/ last'.args.ev_capacity < 0))
       => /\ UNCHANGED lot
          /\ \A i \in 1..Len(last'.emitted) : last'.emitted[i].type # LOT_CREATED]_vars

\* the deliveries of one event to every observer of the list, in list order
FanOut(obs, event) == [i \in 1..Len(obs) |-> [observer |-> obs[i], event |-> event]]

\* C11: every park call emits exactly one event, delivered once to each
\* observer: VehicleParked exactly when the call returns a slot number, and
\* then the event names that slot number, the pool and the registration;
\* ParkingFailed exactly when the call returns the failure value -1.
ParkEventAgreesWithResult ==
    last.op = "park_vehicle" =>
        /\ ~last.raised
        /\ last.result = 0 - 1 \/ last.result >= 1
        /\ Len(last.emitted) = 1
        /\ last.emitted[1].type \in {VEHICLE_PARKED, PARKING_FAILED}
        /\ (last.emitted[1].type = VEHICLE_PARKED) <=> (last.result >= 1)
        /\ (last.emitted[1].type = PARKING_FAILED) <=> (last.result = 0 - 1)
        /\ last.result >= 1 =>
              /\ last.emitted[1].message.nums = <<last.result>>
              /\ last.emitted[1].message.strs[1] = PoolTypeOf(last.args.is_electric)
              /\ last.emitted[1].message.strs[3] = last.args.registration_number
        /\ last.delivered = FanOut(observers, last.emitted[1])

\* C11 witness: a park returned slot 2 and the attached observer received
\* the one VehicleParked event naming slot 2.
ParkEventAgreesWitness ==
    /\ Parked(last)
    /\ last.result = 2
    /\ Len(observers) = 1
    /\ Len(last.delivered) = 1
    /\ last.delivered[1].event.type = VEHICLE_PARKED
    /\ last.delivered[1].event.message.nums = <<2>>

\* registrations asked for: the parked ones and one that differs in case only
QueryRegistrations == {"ABC123", "XYZ999", "abc123"}

\* slot i of the pool is occupied by a vehicle with exactly this registration
HoldsRegistration(slots, i, registration) ==
    /\ i \in 1..Len(slots)
    /\ slots[i] # EMPTY_SLOT
    /\ slots[i].regnum = registration

\* C12: find_by_registration returns the first slot, regular pool in
\* ascending slot order and then EV pool in ascending slot order, whose
\* occupant has exactly the registration asked for: with several matches the
\* lowest regular one, or the lowest EV one if no regular slot matches; it
\* returns found = false exactly when no occupied slot holds the registration.
LookupFirstMatch ==
    \A registration \in QueryRegistrations :
        LET r == find_slot_by_registration(registration)
            any_regular == \E i \in 1..Len(regular_slots) :
                               HoldsRegistration(regular_slots, i, registration)
            any_ev == \E i \in 1..Len(ev_slots) :
                          HoldsRegistration(ev_slots, i, registration)
        IN  /\ r.found <=> (any_regular \/ any_ev)
            /\ ~r.found => r = [found |-> FALSE]
            /\ any_regular =>
                  /\ r.type = "regular"
                  /\ HoldsRegistration(regular_slots, r.slot_number, registration)
                  /\ \A j \in 1..(r.slot_number - 1) :
                        ~HoldsRegistration(regular_slots, j, registration)
            /\ (~any_regular /\ any_ev) =>
                  /\ r.type = "EV"
                  /\ HoldsRegistration(ev_slots, r.slot_number, registration)
                  /\ \A j \in 1..(r.slot_number - 1) :
                        ~HoldsRegistration(ev_slots, j, registration)

\* C12 witness: XYZ999 stands in regular slot 2 behind ABC123 and also in EV
\* slot 1; the lookup of XYZ999 answers regular slot 2, that of abc123 nothing.
LookupFirstMatchWitness ==
    /\ Len(regular_slots) = 2
    /\ Len(ev_slots) >= 1
    /\ HoldsRegistration(regular_slots, 1, "ABC123")
    /\ HoldsRegistration(regular_slots, 2, "XYZ999")
    /\ HoldsRegistration(ev_slots, 1, "XYZ999")
    /\ find_slot_by_registration("XYZ999")
           = [slot_number |-> 2, type |-> "regular", found |-> TRUE]
    /\ ~find_slot_by_registration("abc123").found

\* every registered observer is in the list exactly once
ObserversDistinct ==
    \A i, j \in 1..Len(observers) : observers[i] = observers[j] => i = j

\* the events of the latest call went to every observer once, in list order
DeliveredToAllInOrder ==
    IF Len(last.emitted) = 0
    THEN last.delivered = <<>>
    ELSE /\ Len(last.emitted) = 1
         /\ Len(last.delivered) = Len(observers)
         /\ \A i \in 1..Len(observers) :
               /\ last.delivered[i].observer = observers[i]
               /\ last.delivered[i].event = last.emitted[1]

\* registering an observer that is in the list changes nothing; a new one is
\* put behind all earlier ones; no other call touches the list
RegistrationKeepsOrder ==
    IF last'.op = "attach_observer"
    THEN IF \E i \in 1..Len(observers) : observers[i] = last'.args.observer
         THEN observers' = observers
         ELSE observers' = observers \o <<last'.args.observer>>
    ELSE observers' = observers

\* C13: the observer list holds each distinct observer exactly once in order
\* of first registration (re-registering is a no-op), and each notification
\* is delivered to every registered observer exactly once, in that order,
\* within the call that triggers it.
ObserverFanOut ==
    /\ [](ObserversDistinct /\ DeliveredToAllInOrder)
    /\ [][RegistrationKeepsOrder]_vars

\* C13 witness: three observers were registered, log first and gui last, and
\* a VehicleParked event reached them in exactly that order.
ObserverFanOutWitness ==
    /\ observers = <<"log", "audit", "gui">>
    /\ Parked(last)
    /\ Len(last.delivered) = 3
    /\ last.delivered[1].observer = "log"
    /\ last.delivered[2].observer = "audit"
    /\ last.delivered[3].observer = "gui"
    /\ \A i \in 1..3 : last.delivered[i].event.type = VEHICLE_PARKED

\* colors asked for: other spellings of red, a proper prefix of it, a longer
\* word, white in capitals and a color nobody parked
QueryColors ==
    {<<"r", "e", "d">>, <<"R", "E", "D">>, <<"R", "e", "d">>, <<"r", "e">>,
     <<"r", "e", "d", "s">>, <<"W", "H", "I", "T", "E">>, <<"b", "l", "u", "e">>}

\* two strings of the same length whose letters agree up to case
EqualIgnoringCase(s, t) ==
    /\ Len(s) = Len(t)
    /\ \A i \in 1..Len(s) :
          \/ s[i] = t[i]
          \/ \E k \in 1..26 : {s[i], t[i]} = {UpperLetters[k], LowerLetters[k]}

\* the list is exactly the occupied slots of the pool with the color, each
\* once with its own vehicle, in ascending slot-number order
ListsColorMatches(list, slots, color) ==
    /\ \A k \in 1..Len(list) :
          /\ list[k][1] \in 1..Len(slots)
          /\ list[k][2] = slots[list[k][1]]
          /\ list[k][2] # EMPTY_SLOT
          /\ EqualIgnoringCase(list[k][2].color, color)
    /\ \A k \in 1..(Len(list) - 1) : list[k][1] < list[k + 1][1]
    /\ \A i \in 1..Len(slots) :
          (slots[i] # EMPTY_SLOT /\ EqualIgnoringCase(slots[i].color, color))
              => \E k \in 1..Len(list) : list[k][1] = i

\* C14: find_by_color returns, for each pool separately, exactly the occupied
\* slots whose vehicle's color equals the argument up to case (whole string,
\* no substring match), as (slot number, vehicle) pairs in ascending slot
\* order, none omitted, duplicated or listed under the other pool.
ColorSearchExact ==
    \A color \in QueryColors :
        /\ ListsColorMatches(find_vehicles_by_color(color).regular, regular_slots, color)
        /\ ListsColorMatches(find_vehicles_by_color(color).ev, ev_slots, color)

\* C14 witness: with Red in regular slot 1, red in regular slot 2 and White
\* in the EV slot, RED finds regular slots 1 and 2 and no EV slot, WHITE finds
\* the EV slot only, and the prefix re finds nothing.
ColorSearchWitness ==
    /\ Len(regular_slots) = 2
    /\ Len(ev_slots) = 1
    /\ regular_slots[1] # EMPTY_SLOT
    /\ regular_slots[1].color = <<"R", "e", "d">>
    /\ regular_slots[2] # EMPTY_SLOT
    /\ regular_slots[2].color = <<"r", "e", "d">>
    /\ ev_slots[1] # EMPTY_SLOT
    /\ ev_slots[1].color = <<"W", "h", "i", "t", "e">>
    /\ find_vehicles_by_color(<<"R", "E", "D">>)
           = [regular |-> <<<<1, regular_slots[1]>>, <<2, regular_slots[2]>>>>,
              ev |-> <<>>]
    /\ find_vehicles_by_color(<<"W", "H", "I", "T", "E">>)
           = [regular |-> <<>>, ev |-> <<<<1, ev_slots[1]>>>>]
    /\ find_vehicles_by_color(<<"r", "e">>) = [regular |-> <<>>, ev |-> <<>>]

\* C15: writing v through the charge setter stores max(0, min(100, v)):
\* v itself within 0..100, 100 above it, 0 below it; a vehicle made by the
\* factory starts at charge 0; so the charge of every parked electric vehicle
\* is within 0..100.
ChargeClamped ==
    /\ \A i \in 1..Len(ev_slots) :
          ev_slots[i] # EMPTY_SLOT =>
              (ev_slots[i].charge >= 0 /\ ev_slots[i].charge <= 100)
    /\ last.op = "charge.setter" =>
          ev_slots[last.args.slot_number].charge
              = IF last.args.value < 0 THEN 0
                ELSE IF last.args.value > 100 THEN 100
                ELSE last.args.value
    /\ (Parked(last) /\ last.args.is_electric) => ev_slots[last.result].charge = 0

\* C15 witness: 150 was just written to the vehicle in EV slot 1 and 100 is
\* stored, next to a vehicle in EV slot 2 that holds 50.
ChargeClampedWitness ==
    /\ last.op = "charge.setter"
    /\ last.args.slot_number = 1
    /\ last.args.value = 150
    /\ ev_slots[1].charge = 100
    /\ ev_slots[2] # EMPTY_SLOT
    /\ ev_slots[2].charge = 50

\* the lower end: -5 was just written and 0 is stored
ChargeClampedLowWitness ==
    /\ last.op = "charge.setter"
    /\ last.args.value = 0 - 5
    /\ ev_slots[last.args.slot_number].charge = 0

\* every occupant of the EV pool is of an electric class, every occupant of
\* the regular pool of a non-electric class
PoolsSegregated ==
    /\ \A i \in 1..Len(ev_slots) :
          ev_slots[i] # EMPTY_SLOT =>
              ev_slots[i].cls \in {"ElectricCar", "ElectricMotorcycle"}
    /\ \A i \in 1..Len(regular_slots) :
          regular_slots[i] # EMPTY_SLOT =>
              regular_slots[i].cls \in {"Car", "Motorcycle"}

\* the pool and the slot of a park are decided by is_electric and the pools
\* alone: the lowest empty slot of the pool is_electric names, or failure;
\* is_motorcycle only picks the class of the vehicle put there
PlacementIgnoresKind ==
    (is_initialized /\ last'.op = "park_vehicle") =>
        LET a == last'.args
            target == IF a.is_electric THEN ev_slots ELSE regular_slots
            target_after == IF a.is_electric THEN ev_slots' ELSE regular_slots'
            capacity == IF a.is_electric THEN ev_capacity ELSE regular_capacity
            free == {i \in 1..Len(target) : target[i] = EMPTY_SLOT}
            expected == IF OccupiedCount(target) < capacity /\ free # {}
                        THEN CHOOSE i \in free : \A j \in free : i <= j
                        ELSE 0 - 1
        IN  /\ last'.result = expected
            /\ a.is_electric => regular_slots' = regular_slots
            /\ ~a.is_electric => ev_slots' = ev_slots
            /\ expected >= 1 =>
                  target_after[expected].cls
                      = IF a.is_electric
                        THEN (IF a.is_motorcycle THEN "ElectricMotorcycle" ELSE "ElectricCar")
                        ELSE (IF a.is_motorcycle THEN "Motorcycle" ELSE "Car")

\* C16: in every reachable state every occupant of the EV pool is an electric
\* vehicle and every occupant of the regular pool a non-electric one, for all
\* four (is_electric, is_motorcycle) combinations, and is_motorcycle never
\* influences which pool or slot a park chooses.
PoolSegregation ==
    /\ []PoolsSegregated
    /\ [][PlacementIgnoresKind]_vars

\* C16 witness: a car and a motorcycle stand in the regular pool, an electric
\* car and an electric motorcycle in the EV pool.
PoolSegregationWitness ==
    /\ Len(regular_slots) = 2
    /\ Len(ev_slots) = 2
    /\ {regular_slots[1].cls, regular_slots[2].cls} = {"Car", "Motorcycle"}
    /\ {ev_slots[1].cls, ev_slots[2].cls} = {"ElectricCar", "ElectricMotorcycle"}
    /\ Parked(last)

\* whenever a pool's count of occupied slots is below its capacity, the scan
\* for the first empty slot returns an index inside the pool
CountCheckFindsSlot ==
    /\ OccupiedCount(regular_slots) < regular_capacity =>
          StandardFindEmptySlot(regular_slots) \in 0..(Len(regular_slots) - 1)
    /\ OccupiedCount(ev_slots) < ev_capacity =>
          EVFindEmptySlot(ev_slots) \in 0..(Len(ev_slots) - 1)

\* a park on a created lot fails only when the count check failed: the count
\* of the target pool had reached (or passed) its capacity before the call
ParkFailsOnlyOnCount ==
    (is_initialized /\ last'.op = "park_vehicle" /\ last'.result = 0 - 1) =>
        LET a == last'.args
            target == IF a.is_electric THEN ev_slots ELSE regular_slots
            capacity == IF a.is_electric THEN ev_capacity ELSE regular_capacity
        IN  OccupiedCount(target) >= capacity

\* C17: in every reachable state of a single-caller execution, a pool whose
\* occupied count is below its capacity has an empty slot that the first-empty
\* scan returns as a valid index, so the path of park in which the count check
\* passes and no empty slot is found is never taken.
CountArrayConsistency ==
    /\ []CountCheckFindsSlot
    /\ [][ParkFailsOnlyOnCount]_vars

\* C17 witness: slot 2 of a two-slot regular pool is occupied, the count check
\* passed (1 < 2) and the park just took the hole at slot 1.
CountArrayConsistencyWitness ==
    /\ Parked(last)
    /\ ~last.args.is_electric
    /\ last.result = 1
    /\ regular_capacity = 2
    /\ Len(regular_slots) = 2
    /\ regular_slots[2] # EMPTY_SLOT

\* C19: whenever a park call returns the failure value -1 or emits
\* ParkingFailed, no slot of either pool differs from the state before the
\* call, also when an observer's update raises while it is notified of
\* VehicleParked.
FailedParkChangesNothing ==
    [][(/\ last'.op = "park_vehicle"
        /\ \/ (~last'.raised /\ last'.result = 0 - 1)
           \/ \E i \in 1..Len(last'.emitted) : last'.emitted[i].type = PARKING_FAILED)
       => (regular_slots' = regular_slots /\ ev_slots' = ev_slots)]_vars

\* a park that returned slot n filled exactly slot n of its pool: emptying
\* that slot again gives back the pool as it was before the call, and the
\* other pool was not touched
ParkUndoneByEmptying ==
    Parked(last') =>
        LET n == last'.result
            ev == last'.args.is_electric
            before == IF ev THEN ev_slots ELSE regular_slots
            after == IF ev THEN ev_slots' ELSE regular_slots'
        IN  /\ n \in 1..Len(after)
            /\ after[n] # EMPTY_SLOT
            /\ after[n].regnum = last'.args.registration_number
            /\ [after EXCEPT ![n] = EMPTY_SLOT] = before
            /\ ev => regular_slots' = regular_slots
            /\ ~ev => ev_slots' = ev_slots

\* the call right after a park that returned slot n, when it is
\* remove(n, is_ev_pool = the vehicle is electric): it succeeds, names the
\* parked registration in its single VehicleRemoved event and empties slot n
\* and nothing else
RemoveRightAfterPark ==
    (/\ Parked(last)
     /\ last'.op = "remove_vehicle"
     /\ last'.args.slot_number = last.result
     /\ last'.args.is_ev_slot = last.args.is_electric) =>
        LET n == last.result
            ev == last.args.is_electric
            parked == IF ev THEN ev_slots ELSE regular_slots
            after == IF ev THEN ev_slots' ELSE regular_slots'
        IN  /\ ~last'.raised
            /\ last'.result = TRUE
            /\ Len(last'.emitted) = 1
            /\ last'.emitted[1].type = VEHICLE_REMOVED
            /\ last'.emitted[1].message.strs
                   = <<PoolTypeOf(ev), last.args.registration_number>>
            /\ last'.emitted[1].message.nums = <<n>>
            /\ after = [parked EXCEPT ![n] = EMPTY_SLOT]
            /\ ev => regular_slots' = regular_slots
            /\ ~ev => ev_slots' = ev_slots

\* C20: if park of a vehicle returns slot n, then remove(n, is_ev_pool =
\* vehicle is electric) called immediately afterwards succeeds, its
\* VehicleRemoved event names that vehicle's registration, and both pools are
\* then identical to their state before the park.
ParkRemoveRoundTrip ==
    /\ [][ParkUndoneByEmptying]_vars
    /\ [][RemoveRightAfterPark]_vars

\* C20 witness: an electric vehicle was just parked in EV slot 2 behind an
\* occupied EV slot 1, so remove(2, TRUE) is the next call to make.
ParkRemoveRoundTripWitness ==
    /\ Parked(last)
    /\ last.args.is_electric
    /\ last.result = 2
    /\ Len(ev_slots) = 2
    /\ ev_slots[1] # EMPTY_SLOT
    /\ ev_slots[2].regnum = last.args.registration_number

\* two callers hold the same slot number of the same pool as the result of
\* their parks and one of the two stores replaced a vehicle
SameSlotTwice ==
    \E c \in CallerIds, d \in CallerIds :
        /\ c # d
        /\ callers[c].pc = "returned"
        /\ callers[d].pc = "returned"
        /\ callers[c].op = "park_vehicle"
        /\ callers[d].op = "park_vehicle"
        /\ callers[c].result >= 1
        /\ callers[c].result = callers[d].result
        /\ IsElectricVehicle(callers[c].vehicle) = IsElectricVehicle(callers[d].vehicle)
        /\ (callers[c].overwrote \/ callers[d].overwrote)

\* caller c is between the entry and the return of a park or a remove
InsideParkOrRemove(c) ==
    /\ callers[c].op \in {"park_vehicle", "remove_vehicle"}
    /\ callers[c].pc \notin {"idle", "returned"}

\* C18: two parks on the same pool whose count, scan and place steps
\* interleave without mutual exclusion can both return the same slot number
\* with one vehicle overwritten (the witness below); when every park and
\* remove runs entirely under the one per-lot lock, at most one caller is
\* inside a park or a remove, no store ever replaces a vehicle, and no two
\* parks hold the same slot number with one vehicle overwritten.
RaceOnlyWithoutLock ==
    lock.enabled =>
        /\ ~SameSlotTwice
        /\ \A c \in CallerIds : ~callers[c].overwrote
        /\ \A c \in CallerIds, d \in CallerIds :
              (InsideParkOrRemove(c) /\ InsideParkOrRemove(d)) => c = d

\* C18 witness: without the lock both callers were told regular slot 1;
\* caller 2 stored last, its vehicle is in slot 1 and caller 1's vehicle,
\* reported parked, is in no slot of either pool.
RaceWitness ==
    /\ ~lock.enabled
    /\ callers[1].pc = "returned"
    /\ callers[2].pc = "returned"
    /\ callers[1].op = "park_vehicle"
    /\ callers[2].op = "park_vehicle"
    /\ callers[1].result = 1
    /\ callers[2].result = 1
    /\ ~IsElectricVehicle(callers[1].vehicle)
    /\ ~IsElectricVehicle(callers[2].vehicle)
    /\ callers[2].overwrote
    /\ regular_slots[1] = callers[2].vehicle
    /\ \A i \in 1..Len(regular_slots) : regular_slots[i] # callers[1].vehicle
    /\ \A i \in 1..Len(ev_slots) : ev_slots[i] # callers[1].vehicle

\* the operations that only read the lot
QueryOperations ==
    {"get_all_regular_vehicles", "get_all_ev_vehicles",
     "find_slot_by_registration", "find_vehicles_by_color"}

\* what a call may not touch
FrameOfCall ==
    /\ last'.op = "park_vehicle" =>
          /\ ~last'.args.is_electric => ev_slots' = ev_slots
          /\ last'.args.is_electric => regular_slots' = regular_slots
          /\ UNCHANGED <<level, regular_capacity, ev_capacity,
                         is_initialized, observers>>
    /\ last'.op = "remove_vehicle" =>
          /\ last'.args.is_ev_slot => regular_slots' = regular_slots
          /\ ~last'.args.is_ev_slot => ev_slots' = ev_slots
          /\ UNCHANGED <<level, regular_capacity, ev_capacity,
                         is_initialized, observers>>
    /\ last'.op \in QueryOperations =>
          /\ UNCHANGED lot
          /\ last'.emitted = <<>>
          /\ last'.delivered = <<>>

\* C21: park of a non-electric vehicle never changes the EV pool and park of
\* an electric vehicle never changes the regular pool; remove with is_ev_slot
\* true never changes the regular pool and with is_ev_slot false never changes
\* the EV pool; park and remove never change level, either capacity, the
\* initialized flag or the observer list; the query operations change no
\* state and emit no event.
FrameConditions == [][FrameOfCall]_vars

\* C21 witness: both pools hold a vehicle, an observer is registered, and a
\* lookup has just found ABC123 in regular slot 1.
FrameConditionsWitness ==
    /\ last.op = "find_slot_by_registration"
    /\ last.result.found
    /\ last.result.slot_number = 1
    /\ Len(observers) = 1
    /\ OccupiedCount(regular_slots) >= 1
    /\ OccupiedCount(ev_slots) = 1

\* C21 witness for remove: EV slot 1 was just emptied while regular slot 1,
\* which has the same number, still holds its vehicle.
FrameConditionsRemoveWitness ==
    /\ last.op = "remove_vehicle"
    /\ ~last.raised
    /\ last.result = TRUE
    /\ last.args.is_ev_slot
    /\ last.args.slot_number = 1
    /\ Len(regular_slots) = 2
    /\ regular_slots[1] # EMPTY_SLOT
====
